---- MODULE Spec2Model ----
(***************************************************************************)
(* Model of lib/kif-parser.ts (parseKif, detectSentype) and of the routes   *)
(* POST /api/upload and POST /api/analyze with their two tables.           *)
(*                                                                         *)
(* A JavaScript string is a sequence of characters; every character the    *)
(* parser's literals mention is one token:                                 *)
(*   "KAI" 開  "SHI" 始  "NICHI" 日  "JI" 時  "COLON" ：(U+FF1A)           *)
(*   "SEN" 先  "GO" 後  "TE" 手  "NO" の  "KA" 勝  "CHI" ち               *)
(*   "MA" 負  "KE" け  "FU" 不  "MEI" 明                                   *)
(*   "W2" ２ "W3" ３ "W4" ４ "W5" ５ "W8" ８ (full-width digits)           *)
(*   "HACHI" 八  "NI" 二  "HI" 飛  "SHA" 車  "MIGI" 右  "YON" 四           *)
(*   "KEN" 間  "NAKA" 中  "SAN" 三  "MUKAI" 向  "KAA" か  "I" い           *)
(*   "KYO" 居  "KEI" 系                                                    *)
(*   "LF" \n   "CR" \r   " " space   "(" open parenthesis                  *)
(*   "0".."9" ASCII digits, "A" "B" "x" ordinary letters                   *)
(***************************************************************************)
EXTENDS Integers, Sequences, FiniteSets, TLC

VARIABLES input, MY_NAME, pc, ret, games, up, analyses, an, calls

\* The tables and the requests of the two routes.
serverVars == <<games, up, analyses, an, calls>>

vars == <<input, MY_NAME, pc, ret, games, up, analyses, an, calls>>

\* ---------------------------------------------------------------- bounds
\* The largest number of lines ('\n'-separated) of an input text.
MaxLines == 4
\* The number of requests a route receives, and the largest number of files
\* in one upload.
MaxRequests == 2
MaxFiles == 2

Requests == 1..MaxRequests

\* ------------------------------------------------------------ characters
WhiteSpace == {" ", "CR"}
Digit == {"0", "1", "2", "3", "4", "5", "6", "7", "8", "9"}
LineTerminator == {"LF", "CR"}

\* null of a `string | null` field; no string equals it.
Null == <<"null">>
\* null of `GameRecord | null`.
NoRecord == [null |-> TRUE]

\* '先手' | '後手' | '不明'
SENTE == <<"SEN", "TE">>
GOTE == <<"GO", "TE">>
FUMEI == <<"FU", "MEI">>
\* '勝ち' | '負け'
KACHI == <<"KA", "CHI">>
MAKE == <<"MA", "KE">>

PrefixDate == <<"KAI", "SHI", "NICHI", "JI", "COLON">>
PrefixSente == <<"SEN", "TE", "COLON">>
PrefixGote == <<"GO", "TE", "COLON">>
SenteWins == <<"SEN", "TE", "NO", "KA", "CHI">>
GoteWins == <<"GO", "TE", "NO", "KA", "CHI">>

\* ------------------------------------------------- String.prototype.* etc.
\* The number of consecutive characters of S in s from position i on.
RECURSIVE RunLen(_, _, _)
RunLen(s, i, S) ==
  IF i > Len(s) \/ s[i] \notin S THEN 0 ELSE 1 + RunLen(s, i + 1, S)

\* Is pat a substring of s at position i (1-based)?
OccursAt(s, pat, i) ==
  /\ i >= 1
  /\ i + Len(pat) - 1 <= Len(s)
  /\ \A j \in 1..Len(pat) : s[i + j - 1] = pat[j]

\* s.indexOf(pat) + 1: the first position of pat in s, 0 when there is none.
RECURSIVE IndexFrom(_, _, _)
IndexFrom(s, pat, i) ==
  IF i + Len(pat) - 1 > Len(s) THEN 0
  ELSE IF OccursAt(s, pat, i) THEN i
  ELSE IndexFrom(s, pat, i + 1)

IndexOf(s, pat) == IndexFrom(s, pat, 1)

\* s.startsWith(pat)
StartsWith(s, pat) == OccursAt(s, pat, 1)

\* s.includes(pat)
Includes(s, pat) == IndexOf(s, pat) # 0

\* s.replace(pat, ''): the first occurrence of the string pat removed.
Replace(s, pat) ==
  LET i == IndexOf(s, pat)
  IN IF i = 0 THEN s
     ELSE SubSeq(s, 1, i - 1) \o SubSeq(s, i + Len(pat), Len(s))

\* s.trim()
RECURSIVE TrimEnd(_)
TrimEnd(s) ==
  IF Len(s) > 0 /\ s[Len(s)] \in WhiteSpace
  THEN TrimEnd(SubSeq(s, 1, Len(s) - 1)) ELSE s

Trim(s) ==
  LET a == RunLen(s, 1, WhiteSpace)
  IN TrimEnd(SubSeq(s, a + 1, Len(s)))

\* kif.split('\n')
RECURSIVE Split(_)
Split(s) ==
  LET i == IndexOf(s, <<"LF">>)
  IN IF i = 0 THEN <<s>>
     ELSE <<SubSeq(s, 1, i - 1)>> \o Split(SubSeq(s, i + 1, Len(s)))

\* parseInt of a non-empty run of ASCII digits.
DigitValue(c) ==
  CASE c = "0" -> 0 [] c = "1" -> 1 [] c = "2" -> 2 [] c = "3" -> 3
    [] c = "4" -> 4 [] c = "5" -> 5 [] c = "6" -> 6 [] c = "7" -> 7
    [] c = "8" -> 8 [] c = "9" -> 9

RECURSIVE ParseInt(_)
ParseInt(ds) ==
  IF Len(ds) = 0 THEN 0
  ELSE 10 * ParseInt(SubSeq(ds, 1, Len(ds) - 1)) + DigitValue(ds[Len(ds)])

\* line.match(/^\s*(\d+)\s+(.+?)\s+\(/): [ok, g1, g2].
\* \s* and \d+ are greedy and cannot give back (a digit is no whitespace, and
\* \s+ needs a whitespace right after the digits). The \s+ after the digits is
\* greedy but backtracks (w from k down to 1); .+? is lazy (e from s up) over
\* characters that are no line terminator; the closing \s+ must run up to "(".
MoveMatch(line) ==
  LET n == Len(line)
      a == RunLen(line, 1, WhiteSpace)
      d == RunLen(line, a + 1, Digit)
      k == RunLen(line, a + d + 1, WhiteSpace)
      Closes(e) ==
        LET t == RunLen(line, e + 1, WhiteSpace)
        IN t >= 1 /\ e + t + 1 <= n /\ line[e + t + 1] = "("
      Body(w, e) ==
        LET s == a + d + w + 1
        IN /\ s <= e
           /\ e <= n
           /\ \A j \in s..e : line[j] \notin LineTerminator
           /\ Closes(e)
      ws == {w \in 1..k : \E e \in 1..n : Body(w, e)}
  IN IF d = 0 \/ ws = {} THEN [ok |-> FALSE, g1 |-> <<>>, g2 |-> <<>>]
     ELSE LET w == CHOOSE x \in ws : \A y \in ws : y <= x
              es == {e \in 1..n : Body(w, e)}
              e == CHOOSE x \in es : \A y \in es : x <= y
          IN [ok |-> TRUE,
              g1 |-> SubSeq(line, a + 1, a + d),
              g2 |-> SubSeq(line, a + d + w + 1, e)]

\* ------------------------------------------------------------- parseKif
\* The state of the first loop: gameDate, sente, gote and moves.
ScanInit == [gameDate |-> Null, sente |-> <<>>, gote |-> <<>>, moves |-> <<>>]

\* Mutant: a header field is set by its first line only, later ones are
\* ignored.
ScanLine_FirstWins(acc, line) ==
  IF StartsWith(line, PrefixDate)
  THEN (IF acc.gameDate # Null THEN acc
        ELSE [acc EXCEPT !.gameDate = Trim(Replace(line, PrefixDate))])
  ELSE IF StartsWith(line, PrefixSente)
  THEN (IF acc.sente # <<>> THEN acc
        ELSE [acc EXCEPT !.sente = Trim(Replace(line, PrefixSente))])
  ELSE IF StartsWith(line, PrefixGote)
  THEN (IF acc.gote # <<>> THEN acc
        ELSE [acc EXCEPT !.gote = Trim(Replace(line, PrefixGote))])
  ELSE LET m == MoveMatch(line)
       IN IF m.ok
          THEN [acc EXCEPT !.moves =
                  Append(@, [num |-> ParseInt(m.g1), move |-> Trim(m.g2)])]
          ELSE acc

\* One iteration of `for (const line of lines)`, first loop.
ScanLine(acc, line) ==
  IF StartsWith(line, PrefixDate)
  THEN [acc EXCEPT !.gameDate = Trim(Replace(line, PrefixDate))]
  ELSE IF StartsWith(line, PrefixSente)
  THEN [acc EXCEPT !.sente = Trim(Replace(line, PrefixSente))]
  ELSE IF StartsWith(line, PrefixGote)
  THEN [acc EXCEPT !.gote = Trim(Replace(line, PrefixGote))]
  ELSE LET m == MoveMatch(line)
       IN IF m.ok
          THEN [acc EXCEPT !.moves =
                  Append(@, [num |-> ParseInt(m.g1), move |-> Trim(m.g2)])]
          ELSE acc

\* The first loop over lines[i..].
RECURSIVE ScanLines(_, _, _)
ScanLines(lines, i, acc) ==
  IF i > Len(lines) THEN acc
  ELSE ScanLines(lines, i + 1, ScanLine(acc, lines[i]))

\* const mySide = sente === MY_NAME ? '先手' : gote === MY_NAME ? '後手' : '不明'
MySide(sente, gote, myName) ==
  IF sente = myName THEN SENTE ELSE IF gote = myName THEN GOTE ELSE FUMEI

\* Mutant: the two names swapped.
Opponent_Swapped(mySide, sente, gote) ==
  IF mySide = SENTE THEN sente ELSE IF mySide = GOTE THEN gote ELSE Null

\* const opponent = mySide === '先手' ? gote : mySide === '後手' ? sente : null
Opponent(mySide, sente, gote) ==
  IF mySide = SENTE THEN gote ELSE IF mySide = GOTE THEN sente ELSE Null

\* Mutant: the largest ply number instead of the last one.
TotalMoves_Max(moves) ==
  CHOOSE n \in {moves[j].num : j \in 1..Len(moves)} :
    \A j \in 1..Len(moves) : moves[j].num <= n

\* Mutant: the first ply's number instead of the last one.
TotalMoves_First(moves) == moves[1].num

\* const totalMoves = moves[moves.length - 1].num
TotalMoves(moves) == moves[Len(moves)].num

\* Mutant: the loop without its `break`s, so the last phrase decides.
RECURSIVE ResultScan_NoBreak(_, _, _, _, _)
ResultScan_NoBreak(lines, i, sente, gote, myName) ==
  IF i > Len(lines) THEN FUMEI
  ELSE LET later == ResultScan_NoBreak(lines, i + 1, sente, gote, myName)
       IN IF later # FUMEI THEN later
          ELSE IF Includes(lines[i], GoteWins)
          THEN (IF gote = myName THEN KACHI ELSE MAKE)
          ELSE IF Includes(lines[i], SenteWins)
          THEN (IF sente = myName THEN KACHI ELSE MAKE)
          ELSE FUMEI

\* The second loop over lines[i..]: the result of the first line that
\* includes a win phrase ('先手の勝ち' is tested first on each line).
RECURSIVE ResultScan(_, _, _, _, _)
ResultScan(lines, i, sente, gote, myName) ==
  IF i > Len(lines) THEN FUMEI
  ELSE IF Includes(lines[i], SenteWins)
  THEN (IF sente = myName THEN KACHI ELSE MAKE)
  ELSE IF Includes(lines[i], GoteWins)
  THEN (IF gote = myName THEN KACHI ELSE MAKE)
  ELSE ResultScan(lines, i + 1, sente, gote, myName)

\* Mutant: only an assigned second mover gets the even plies.
MyParity_UnknownOdd(mySide) == IF mySide = GOTE THEN 0 ELSE 1

\* const myParity = mySide === '先手' ? 1 : 0
MyParity(mySide) == IF mySide = SENTE THEN 1 ELSE 0

\* moves.filter(m => pred(m.num % 2)).map(m => m.move)
RECURSIVE MovesOfParity(_, _, _)
MovesOfParity(moves, parity, same) ==
  IF Len(moves) = 0 THEN <<>>
  ELSE LET m == Head(moves)
           rest == MovesOfParity(Tail(moves), parity, same)
       IN IF (m.num % 2 = parity) = same THEN <<m.move>> \o rest ELSE rest

MyMoves(moves, mySide) == MovesOfParity(moves, MyParity(mySide), TRUE)

\* Mutant: the opponent's list is always the even plies.
OppMoves_EvenPlies(moves, mySide) == MovesOfParity(moves, 0, TRUE)

OppMoves(moves, mySide) == MovesOfParity(moves, MyParity(mySide), FALSE)

\* ---------------------------------------------------------- detectSentype
\* The formation tags.
MIGI_SHIKEN == <<"MIGI", "YON", "KEN", "HI", "SHA">>
NAKABISHA == <<"NAKA", "HI", "SHA">>
SANKEN == <<"SAN", "KEN", "HI", "SHA">>
MUKAI == <<"MUKAI", "KAA", "I", "HI", "SHA">>
IBISHA == <<"KYO", "HI", "SHA", "KEI">>

\* moves.some(m => m.includes(`${file}${rank}飛`))
SomeIncludes(moves, file, rank) ==
  \E j \in 1..Len(moves) : Includes(moves[j], <<file, rank, "HI">>)

\* Mutant: the file-5 test comes before the file-4 test.
detectSentype_CentralFirst(moves, rank) ==
  IF SomeIncludes(moves, "W5", rank) THEN NAKABISHA
  ELSE IF SomeIncludes(moves, "W4", rank) THEN MIGI_SHIKEN
  ELSE IF SomeIncludes(moves, "W3", rank) THEN SANKEN
  ELSE IF SomeIncludes(moves, "W2", rank) \/ SomeIncludes(moves, "W8", rank)
  THEN MUKAI
  ELSE IBISHA

detectSentype(moves, rank) ==
  IF SomeIncludes(moves, "W4", rank) THEN MIGI_SHIKEN
  ELSE IF SomeIncludes(moves, "W5", rank) THEN NAKABISHA
  ELSE IF SomeIncludes(moves, "W3", rank) THEN SANKEN
  ELSE IF SomeIncludes(moves, "W2", rank) \/ SomeIncludes(moves, "W8", rank)
  THEN MUKAI
  ELSE IBISHA

\* Mutant: the rank marker follows the tracked side, '八' for the tracked
\* player's moves and '二' for the opponent's, whoever moved first.
GameRecordOf_RankOfTracked(text, lines, h, myName) ==
  LET mySide == MySide(h.sente, h.gote, myName)
  IN [game_date |-> h.gameDate,
      my_side |-> mySide,
      opponent |-> Opponent(mySide, h.sente, h.gote),
      total_moves |-> TotalMoves(h.moves),
      result |-> ResultScan(lines, 1, h.sente, h.gote, myName),
      my_sentype |-> detectSentype(MyMoves(h.moves, mySide), "HACHI"),
      opp_sentype |-> detectSentype(OppMoves(h.moves, mySide), "NI"),
      kif_raw |-> text]

\* The record parseKif returns once the move list is known to be non-empty.
GameRecordOf(text, lines, h, myName) ==
  LET mySide == MySide(h.sente, h.gote, myName)
  IN [game_date |-> h.gameDate,
      my_side |-> mySide,
      opponent |-> Opponent(mySide, h.sente, h.gote),
      total_moves |-> TotalMoves(h.moves),
      result |-> ResultScan(lines, 1, h.sente, h.gote, myName),
      my_sentype |-> detectSentype(MyMoves(h.moves, mySide),
                        IF mySide = SENTE THEN "HACHI" ELSE "NI"),
      opp_sentype |-> detectSentype(OppMoves(h.moves, mySide),
                        IF mySide = SENTE THEN "NI" ELSE "HACHI"),
      kif_raw |-> text]

\* Mutant: a text without moves yields an empty record unless it has no date.
parseKif_EmptyRecord(text, myName) ==
  LET lines == Split(text)
      h == ScanLines(lines, 1, ScanInit)
  IN IF Len(h.moves) = 0
     THEN (IF h.gameDate = Null THEN NoRecord
           ELSE [game_date |-> h.gameDate, my_side |-> FUMEI,
                 opponent |-> Null, total_moves |-> 0, result |-> FUMEI,
                 my_sentype |-> IBISHA, opp_sentype |-> IBISHA,
                 kif_raw |-> text])
     ELSE GameRecordOf(text, lines, h, myName)

\* Mutant: a text without a date header is rejected too.
parseKif_RequireDate(text, myName) ==
  LET lines == Split(text)
      h == ScanLines(lines, 1, ScanInit)
  IN IF Len(h.moves) = 0 \/ h.gameDate = Null THEN NoRecord
     ELSE GameRecordOf(text, lines, h, myName)

\* parseKif(kif) with MY_NAME = myName.
parseKif(text, myName) ==
  LET lines == Split(text)
      h == ScanLines(lines, 1, ScanInit)
  IN IF Len(h.moves) = 0 THEN NoRecord
     ELSE GameRecordOf(text, lines, h, myName)

\* ------------------------------------------------------------ the inputs
\* The values of SHOGI_WARS_USERNAME: unset or empty (''), and a name.
Names == {<<>>, <<"A">>}

\* The lines an input text is made of: header lines, move lines, lines with
\* a win phrase (one of them close to a move line), and a line with both.
HeaderLines ==
  { PrefixSente \o <<"A">>,                       \* 先手：A
    PrefixGote \o <<"A">>,                        \* 後手：A
    PrefixGote \o <<" ", "B", "CR">>,             \* 後手： B\r
    PrefixDate \o <<"1", " ">> }                  \* 開始日時：1

MoveLines ==
  { <<"1", " ", "W4", "HACHI", "HI", " ", "(">>,           \* 1 ４八飛 (
    <<" ", "1", "2", " ", " ", "W5", "NI", "HI", " ", "(", "0">> }
                                                  \*  12  ５二飛 (0

PhraseLines ==
  { <<"x">> \o SenteWins,                         \* x先手の勝ち
    <<"3", " ">> \o GoteWins \o <<"(">>,          \* 3 後手の勝ち(
    GoteWins \o SenteWins }                       \* 後手の勝ち先手の勝ち

LineVocab == HeaderLines \cup MoveLines \cup PhraseLines

\* The text of a file with the given lines: they are joined by '\n'.
RECURSIVE Join(_)
Join(ls) ==
  IF Len(ls) = 0 THEN <<>>
  ELSE IF Len(ls) = 1 THEN ls[1]
  ELSE ls[1] \o <<"LF">> \o Join(Tail(ls))

\* ------------------------------------------------------ the state machine
\* input    the lines of the file being written; its text is Join(input)
\* MY_NAME  the module constant read from the environment at load time
\* pc       "input" while the file is being written, "parsed" after the call
\* ret      what parseKif returned
\* games, analyses  the rows of the two tables, in insertion order
\* up       the local state of each POST /api/upload request
\* an       the local state of each POST /api/analyze request
\* calls    how often the commentary model was called for each game
NoUpload ==
  [pc |-> "idle", status |-> 0, files |-> <<>>, i |-> 0, record |-> NoRecord,
   saved |-> 0, skipped |-> 0, errors |-> <<>>]

NoAnalyze == [pc |-> "idle", status |-> 0, gameId |-> 0, cached |-> FALSE]

ServerInit ==
  /\ games = <<>>
  /\ up = [r \in Requests |-> NoUpload]
  /\ analyses = <<>>
  /\ an = [r \in Requests |-> NoAnalyze]
  /\ calls = <<>>

Init ==
  /\ input = <<>>
  /\ MY_NAME \in Names
  /\ pc = "input"
  /\ ret = NoRecord
  /\ ServerInit

\* The file gets one more line.
AppendLine(line) ==
  /\ pc = "input"
  /\ Len(input) < MaxLines
  /\ input' = Append(input, line)
  /\ UNCHANGED <<MY_NAME, pc, ret, serverVars>>

\* The call parseKif(kif) on the text of the file.
Parse ==
  /\ pc = "input"
  /\ ret' = parseKif(Join(input), MY_NAME)
  /\ pc' = "parsed"
  /\ UNCHANGED <<input, MY_NAME, serverVars>>

Next ==
  \/ \E line \in LineVocab : AppendLine(line)
  \/ Parse

Spec == Init /\ [][Next]_vars

\* ------------------------------------------------- reading the input file
\* The lines of the file, and what the parser's first loop takes each for.
\* (The empty file is the text '', which has the one line ''.)
Lines == IF input = <<>> THEN <<<<>>>> ELSE input

IsHeaderLine(line) ==
  \/ StartsWith(line, PrefixDate)
  \/ StartsWith(line, PrefixSente)
  \/ StartsWith(line, PrefixGote)

IsMoveLine(line) == ~IsHeaderLine(line) /\ MoveMatch(line).ok

MoveLineIdx == {i \in 1..Len(Lines) : IsMoveLine(Lines[i])}

\* The ply number written on a move line.
PlyOf(line) == ParseInt(MoveMatch(line).g1)

HasPhrase(line) == Includes(line, SenteWins) \/ Includes(line, GoteWins)

PhraseLineIdx == {i \in 1..Len(Lines) : HasPhrase(Lines[i])}

MaxOf(S) == CHOOSE n \in S : \A m \in S : m <= n
MinOf(S) == CHOOSE n \in S : \A m \in S : n <= m

\* The name or date a header declares: what follows the prefix on the last
\* line that starts with it, trimmed; `dflt` when no line starts with it.
Declared(prefix, dflt) ==
  LET idx == {i \in 1..Len(Lines) : StartsWith(Lines[i], prefix)}
  IN IF idx = {} THEN dflt
     ELSE LET line == Lines[MaxOf(idx)]
          IN Trim(SubSeq(line, Len(prefix) + 1, Len(line)))

DeclaredSente == Declared(PrefixSente, <<>>)
DeclaredGote == Declared(PrefixGote, <<>>)

\* parseKif has returned / has returned a record.
Parsed == pc = "parsed"
Produced == pc = "parsed" /\ ret # NoRecord

\* ------------------------------------------------------------------ C1
\* C1: a text in which no line is recognized as a move line yields no record
\* (null), whatever header lines or win phrases it contains.
C1_NoMoveLineNoRecord ==
  (Parsed /\ MoveLineIdx = {}) => ret = NoRecord

\* A text with a header line and a win phrase but no move line was parsed.
C1_Witness ==
  /\ Parsed
  /\ MoveLineIdx = {}
  /\ \E i \in 1..Len(Lines) : IsHeaderLine(Lines[i])
  /\ PhraseLineIdx # {}
  /\ ret = NoRecord

\* ------------------------------------------------------------------ C2
\* C2: a text with at least one move line yields a record; a missing date
\* header only leaves game_date null, the absence of a win phrase only leaves
\* result '不明', and a tracked name that matches no declared name only leaves
\* my_side '不明' and opponent null.
C2_MoveLineGivesRecord ==
  (Parsed /\ MoveLineIdx # {}) =>
     /\ ret # NoRecord
     /\ (\A i \in 1..Len(Lines) : ~StartsWith(Lines[i], PrefixDate))
          => ret.game_date = Null
     /\ PhraseLineIdx = {} => ret.result = FUMEI
     /\ (DeclaredSente # MY_NAME /\ DeclaredGote # MY_NAME)
          => (ret.my_side = FUMEI /\ ret.opponent = Null)

\* A text with a move line but no header and no win phrase was parsed for a
\* tracked name that matches nothing.
C2_Witness ==
  /\ Produced
  /\ MY_NAME = <<"A">>
  /\ \A i \in 1..Len(Lines) : ~IsHeaderLine(Lines[i])
  /\ PhraseLineIdx = {}
  /\ ret.game_date = Null
  /\ ret.my_side = FUMEI
  /\ ret.result = FUMEI

\* ------------------------------------------------------------------ C3
\* C3: total_moves of a record is the ply number of the last line, in file
\* order, that is a move line.
C3_TotalMovesIsLastMoveLine ==
  Produced => ret.total_moves = PlyOf(Lines[MaxOf(MoveLineIdx)])

\* The move lines of the text are out of order: the last one carries a smaller
\* ply number than an earlier one, and total_moves is that smaller number.
C3_Witness ==
  /\ Produced
  /\ \E i \in MoveLineIdx : PlyOf(Lines[i]) > ret.total_moves
  /\ ret.total_moves = PlyOf(Lines[MaxOf(MoveLineIdx)])

\* ------------------------------------------------------------------ C4
\* C4 (as claimed): total_moves of a record is the largest ply number among
\* the parsed plies.
C4_TotalMovesIsMaxPly ==
  Produced => ret.total_moves = MaxOf({PlyOf(Lines[i]) : i \in MoveLineIdx})

\* The ply numbers do not decrease in file order.
PliesAscend ==
  \A i, j \in MoveLineIdx : i < j => PlyOf(Lines[i]) <= PlyOf(Lines[j])

\* C4 (amended): when the ply numbers do not decrease in file order,
\* total_moves of a record is the largest ply number among the parsed plies.
C4_TotalMovesIsMaxPlyWhenAscending ==
  (Produced /\ PliesAscend) =>
     ret.total_moves = MaxOf({PlyOf(Lines[i]) : i \in MoveLineIdx})

\* Move lines with two different ply numbers, in ascending order, were parsed.
C4_Witness ==
  /\ Produced
  /\ PliesAscend
  /\ \E i, j \in MoveLineIdx : PlyOf(Lines[i]) < PlyOf(Lines[j])
  /\ ret.total_moves = MaxOf({PlyOf(Lines[i]) : i \in MoveLineIdx})

\* ------------------------------------------------------------------ C5
\* C5 (as claimed): when the tracked name equals both declared names my_side
\* is '不明'; a side is assigned only when exactly one declared name equals
\* the tracked name.
C5_BothMatchIsUnknown ==
  Produced =>
     /\ (DeclaredSente = MY_NAME /\ DeclaredGote = MY_NAME)
          => ret.my_side = FUMEI
     /\ ret.my_side # FUMEI
          => ((DeclaredSente = MY_NAME) # (DeclaredGote = MY_NAME))

\* ------------------------------------------------------------------ C6
\* C6 (as claimed): with the empty tracked name no side matches: every record
\* has my_side '不明' and opponent null.
C6_EmptyNameNeverMatches ==
  (Produced /\ MY_NAME = <<>>) =>
     (ret.my_side = FUMEI /\ ret.opponent = Null)

\* ------------------------------------------------------------------ C7
\* C7 (as claimed): whenever my_side of a record is '不明', result is '不明'
\* too, with or without a win phrase in the text.
C7_UnknownSideUnknownResult ==
  (Produced /\ ret.my_side = FUMEI) => ret.result = FUMEI

\* ------------------------------------------------------------------ C8
\* The side named as winner by the deciding phrase: the phrase of the first
\* line that includes one ('先手の勝ち' when that line includes both).
Winner ==
  IF Includes(Lines[MinOf(PhraseLineIdx)], SenteWins) THEN SENTE ELSE GOTE

\* C8 (as claimed): when a side is assigned, result is '勝ち' exactly when the
\* deciding phrase names the tracked side as winner, '負け' exactly when it
\* names the other side, and '不明' exactly when no line has a phrase.
C8_ResultRelativeToSide ==
  (Produced /\ ret.my_side # FUMEI) =>
     /\ ret.result = KACHI <=> (PhraseLineIdx # {} /\ Winner = ret.my_side)
     /\ ret.result = MAKE <=> (PhraseLineIdx # {} /\ Winner # ret.my_side)
     /\ ret.result = FUMEI <=> PhraseLineIdx = {}

\* ------------------------------------------------------------------ C9
\* What a phrase naming `side` as winner makes of result.
ResultFor(side) ==
  IF (IF side = SENTE THEN DeclaredSente ELSE DeclaredGote) = MY_NAME
  THEN KACHI ELSE MAKE

BothPhrasesAppear ==
  /\ \E i \in 1..Len(Lines) : Includes(Lines[i], SenteWins)
  /\ \E i \in 1..Len(Lines) : Includes(Lines[i], GoteWins)

\* The side named by the phrase that comes first in the text, character by
\* character.
FirstPhraseInText ==
  LET line == Lines[MinOf(PhraseLineIdx)]
      s == IndexOf(line, SenteWins)
      g == IndexOf(line, GoteWins)
  IN IF g = 0 \/ (s # 0 /\ s < g) THEN SENTE ELSE GOTE

\* C9 (as claimed): when both phrases appear in the text, the one that occurs
\* first in file order alone decides result.
C9_FirstPhraseInTextDecides ==
  (Produced /\ BothPhrasesAppear) => ret.result = ResultFor(FirstPhraseInText)

\* C9 (amended): when both phrases appear in the text, the first line that
\* includes a phrase alone decides result, and where that line includes both
\* phrases '先手の勝ち' decides; later lines have no effect.
C9_FirstPhraseLineDecides ==
  (Produced /\ BothPhrasesAppear) => ret.result = ResultFor(Winner)

\* A line with '先手の勝ち' alone is followed by a line with '後手の勝ち', the
\* two phrases would give different results, and the first one decided.
C9_Witness ==
  /\ Produced
  /\ PhraseLineIdx # {}
  /\ \E i, j \in 1..Len(Lines) :
        /\ i < j
        /\ i = MinOf(PhraseLineIdx)
        /\ Includes(Lines[i], SenteWins) /\ ~Includes(Lines[i], GoteWins)
        /\ Includes(Lines[j], GoteWins)
  /\ ResultFor(SENTE) # ResultFor(GOTE)
  /\ ret.result = ResultFor(SENTE)

\* ------------------------------------------------------------------ C10
\* C10: opponent of a record is the declared second-mover name when my_side is
\* '先手', the declared first-mover name when my_side is '後手', and null when
\* my_side is '不明'; it is null if and only if my_side is '不明'.
C10_OpponentIsOtherName ==
  Produced =>
     /\ ret.my_side \in {SENTE, GOTE, FUMEI}
     /\ ret.my_side = SENTE => ret.opponent = DeclaredGote
     /\ ret.my_side = GOTE => ret.opponent = DeclaredSente
     /\ ret.my_side = FUMEI => ret.opponent = Null
     /\ ret.opponent = Null <=> ret.my_side = FUMEI

\* The tracked player A moved first against a declared second mover B.
C10_Witness ==
  /\ Produced
  /\ MY_NAME = <<"A">>
  /\ DeclaredSente = <<"A">>
  /\ DeclaredGote = <<"B">>
  /\ ret.my_side = SENTE
  /\ ret.opponent = <<"B">>

\* ------------------------------------------------------------------ C11
\* Files made of header lines that declare different values, and a move line.
HeaderVocab ==
  { PrefixSente \o <<"A">>,                       \* 先手：A
    PrefixSente \o <<"B">>,                       \* 先手：B
    PrefixGote \o <<"A">>,                        \* 後手：A
    PrefixGote \o <<" ", "B", "CR">>,             \* 後手： B\r
    PrefixDate \o <<"1", " ">>,                   \* 開始日時：1
    PrefixDate \o <<"2">>,                        \* 開始日時：2
    <<"1", " ", "W4", "HACHI", "HI", " ", "(">> } \* 1 ４八飛 (

NextHeaders ==
  \/ \E line \in HeaderVocab : AppendLine(line)
  \/ Parse

SpecHeaders == Init /\ [][NextHeaders]_vars

\* C11: when a header line (start date, first-mover name, second-mover name)
\* occurs more than once, the value of its last occurrence in file order is
\* the one used for game_date, for the side assignment and for opponent.
C11_LastHeaderWins ==
  Produced =>
     /\ ret.game_date = Declared(PrefixDate, Null)
     /\ ret.my_side = MySide(DeclaredSente, DeclaredGote, MY_NAME)
     /\ ret.opponent = Opponent(ret.my_side, DeclaredSente, DeclaredGote)

\* The values a prefix declares on lines i and j differ.
DeclareDifferently(prefix, i, j) ==
  /\ StartsWith(Lines[i], prefix)
  /\ StartsWith(Lines[j], prefix)
  /\ Trim(Replace(Lines[i], prefix)) # Trim(Replace(Lines[j], prefix))

\* The first-mover header names the tracked player first and somebody else
\* later, the second-mover header is repeated with another name too, and the
\* record follows the later lines.
C11_Witness ==
  /\ Produced
  /\ MY_NAME = <<"A">>
  /\ \E i, j \in 1..Len(Lines) :
        /\ i < j
        /\ DeclareDifferently(PrefixSente, i, j)
        /\ Trim(Replace(Lines[i], PrefixSente)) = MY_NAME
        /\ DeclaredSente # MY_NAME
  /\ ret.my_side # SENTE

\* ------------------------------------------------- files of move lines
\* Files made of move lines with rook moves of both sides (one of them on an
\* even ply with the first mover's rank marker, one numbered 0), and a header
\* that names the tracked player as second mover.
FormationVocab ==
  { PrefixGote \o <<"A">>,                             \* 後手：A
    <<"1", " ", "W4", "HACHI", "HI", " ", "(">>,       \* 1 ４八飛 (
    <<"3", " ", "W5", "HACHI", "HI", " ", "(">>,       \* 3 ５八飛 (
    <<"5", " ", "W3", "HACHI", "HI", " ", "(">>,       \* 5 ３八飛 (
    <<"2", " ", "W5", "NI", "HI", " ", "(">>,          \* 2 ５二飛 (
    <<"2", " ", "W8", "HACHI", "HI", " ", "(">>,       \* 2 ８八飛 (
    <<"0", " ", "x", "W2", "NI", "HI", " ", "(">> }    \* 0 x２二飛 (

NextFormation ==
  \/ \E line \in FormationVocab : AppendLine(line)
  \/ Parse

SpecFormation == Init /\ [][NextFormation]_vars

\* The plies of the file: number and move text of its move lines, in file
\* order.
RECURSIVE PliesFrom(_)
PliesFrom(i) ==
  IF i > Len(Lines) THEN <<>>
  ELSE LET m == MoveMatch(Lines[i])
       IN IF ~IsHeaderLine(Lines[i]) /\ m.ok
          THEN <<[num |-> ParseInt(m.g1), move |-> Trim(m.g2)]>>
                 \o PliesFrom(i + 1)
          ELSE PliesFrom(i + 1)

Plies == PliesFrom(1)

\* The move texts of the odd-numbered (r = 1) or even-numbered (r = 0) plies,
\* in file order.
RECURSIVE TextsOfRemainder(_, _)
TextsOfRemainder(plies, r) ==
  IF plies = <<>> THEN <<>>
  ELSE IF Head(plies).num % 2 = r
  THEN <<Head(plies).move>> \o TextsOfRemainder(Tail(plies), r)
  ELSE TextsOfRemainder(Tail(plies), r)

\* ------------------------------------------------------------------ C12
\* plies is an interleaving of mine and theirs: every ply went to exactly one
\* of the two lists, and each list is in the order of plies.
RECURSIVE Interleaved(_, _, _)
Interleaved(plies, mine, theirs) ==
  IF plies = <<>> THEN mine = <<>> /\ theirs = <<>>
  ELSE \/ /\ mine # <<>>
          /\ Head(mine) = Head(plies).move
          /\ Interleaved(Tail(plies), Tail(mine), theirs)
       \/ /\ theirs # <<>>
          /\ Head(theirs) = Head(plies).move
          /\ Interleaved(Tail(plies), mine, Tail(theirs))

\* C12: for every parsed ply sequence and every side, assigned or unknown,
\* the parity split is a partition: each ply's move text is in exactly one of
\* the 'mine' and 'opponent' lists, and each list keeps file order.
C12_ParitySplitIsPartition ==
  Produced =>
     LET plies == Plies
     IN \A side \in {SENTE, GOTE, FUMEI} :
           LET mine == MyMoves(plies, side)
               theirs == OppMoves(plies, side)
           IN /\ Len(mine) + Len(theirs) = Len(plies)
              /\ Interleaved(plies, mine, theirs)

\* A file with plies of both parities was parsed and both lists of the
\* record's side are non-empty.
C12_Witness ==
  /\ Produced
  /\ LET plies == Plies
     IN /\ Len(plies) >= 3
        /\ MyMoves(plies, ret.my_side) # <<>>
        /\ OppMoves(plies, ret.my_side) # <<>>

\* ------------------------------------------------------------------ C13
\* The files of the four rules and their tags.
RuleFiles == <<{"W4"}, {"W5"}, {"W3"}, {"W2", "W8"}>>
RuleTag == <<MIGI_SHIKEN, NAKABISHA, SANKEN, MUKAI>>

\* Rule k matches: some move text of the list has, at some position, one of
\* the rule's files followed by the rank marker and '飛'.
RuleMatches(k, texts, rank) ==
  \E j \in 1..Len(texts) :
     \E pos \in 1..Len(texts[j]) :
        /\ pos + 2 <= Len(texts[j])
        /\ texts[j][pos] \in RuleFiles[k]
        /\ texts[j][pos + 1] = rank
        /\ texts[j][pos + 2] = "HI"

ExpectedTag(texts, rank) ==
  LET matched == {k \in 1..4 : RuleMatches(k, texts, rank)}
  IN IF matched = {} THEN IBISHA ELSE RuleTag[MinOf(matched)]

\* The move-text lists of the file: all plies, the odd ones, the even ones.
AllTexts == LET plies == Plies IN [j \in 1..Len(plies) |-> plies[j].move]
OddTexts == TextsOfRemainder(Plies, 1)
EvenTexts == TextsOfRemainder(Plies, 0)

\* C13: detectSentype returns the tag of the lowest-numbered rule whose
\* pattern, with the given rank marker, occurs in any element of the list,
\* and the default tag '居飛車系' exactly when no rule matches.
C13_LowestRuleDecides ==
  Produced =>
     LET lists == {AllTexts, OddTexts, EvenTexts}
     IN \A rank \in {"HACHI", "NI"} :
           \A texts \in lists :
              LET tag == detectSentype(texts, rank)
              IN /\ tag = ExpectedTag(texts, rank)
                 /\ tag = IBISHA
                      <=> \A k \in 1..4 : ~RuleMatches(k, texts, rank)

\* The first mover's list has a file-5 rook move before a file-4 rook move
\* and is tagged '右四間飛車'.
C13_Witness ==
  /\ Produced
  /\ ret.my_side = SENTE
  /\ ret.my_sentype = MIGI_SHIKEN
  /\ LET odd == OddTexts
     IN \E i, j \in 1..Len(odd) :
           /\ i < j
           /\ Includes(odd[i], <<"W5", "HACHI", "HI">>)
           /\ Includes(odd[j], <<"W4", "HACHI", "HI">>)

\* ------------------------------------------------------------------ C14
\* C14: when my_side is '不明' both tags are computed with the second mover's
\* parity: my_sentype from the even-numbered plies and opp_sentype from the
\* odd-numbered plies, as for a tracked second mover.
C14_UnknownSideUsesSecondMoverParity ==
  (Produced /\ ret.my_side = FUMEI) =>
     /\ ret.my_sentype = ExpectedTag(EvenTexts, "NI")
     /\ ret.opp_sentype = ExpectedTag(OddTexts, "HACHI")

\* The side is unknown, both parities have a rook move, and the two tags are
\* those of the even and of the odd plies.
C14_Witness ==
  /\ Produced
  /\ ret.my_side = FUMEI
  /\ ret.my_sentype = NAKABISHA
  /\ ret.opp_sentype = MIGI_SHIKEN
  /\ ExpectedTag(EvenTexts, "NI") = NAKABISHA
  /\ ExpectedTag(OddTexts, "HACHI") = MIGI_SHIKEN

\* ------------------------------------------------------------------ C15
\* C15 (as claimed): every ply has a positive ply number, so every record has
\* total_moves >= 1.
C15_PlyNumbersPositive ==
  Produced =>
     /\ ret.total_moves >= 1
     /\ LET plies == Plies IN \A j \in 1..Len(plies) : plies[j].num >= 1

\* ------------------------------------------------------------------ C19
\* C19: the two lists are classified with different rank markers, and the
\* marker follows the mover: the odd-numbered plies are classified with '八'
\* and the even-numbered plies with '二', whichever tag they feed.
C19_RankMarkerFollowsMover ==
  Produced =>
     /\ ret.my_side = SENTE =>
          /\ ret.my_sentype = ExpectedTag(OddTexts, "HACHI")
          /\ ret.opp_sentype = ExpectedTag(EvenTexts, "NI")
     /\ ret.my_side # SENTE =>
          /\ ret.my_sentype = ExpectedTag(EvenTexts, "NI")
          /\ ret.opp_sentype = ExpectedTag(OddTexts, "HACHI")

\* The tracked player moved second; an even ply carries a rook move written
\* with '八', which the marker '二' of the even plies does not match, and the
\* odd plies of the opponent are tagged by their '八' rook move.
C19_Witness ==
  /\ Produced
  /\ MY_NAME = <<"A">>
  /\ ret.my_side = GOTE
  /\ ret.my_sentype = IBISHA
  /\ ret.opp_sentype = MIGI_SHIKEN
  /\ LET even == EvenTexts
     IN \E j \in 1..Len(even) : Includes(even[j], <<"W8", "HACHI", "HI">>)

\* ------------------------------------------------------ POST /api/upload
\* The files a client uploads: file 1 has no move line; files 2 and 3 are two
\* texts of games with the same start date and players; file 4 has no start
\* date.
FileTexts ==
  << Join(<< <<"x">> \o SenteWins >>),
     Join(<< PrefixDate \o <<"1", " ">>, PrefixSente \o <<"A">>,
             PrefixGote \o <<" ", "B", "CR">>,
             <<"1", " ", "W4", "HACHI", "HI", " ", "(">> >>),
     Join(<< PrefixDate \o <<"1", " ">>, PrefixGote \o <<" ", "B", "CR">>,
             PrefixSente \o <<"A">>,
             <<"1", " ", "W5", "HACHI", "HI", " ", "(">>,
             <<"x">> \o SenteWins >>),
     Join(<< PrefixSente \o <<"A">>, PrefixGote \o <<" ", "B", "CR">>,
             <<"1", " ", "W4", "HACHI", "HI", " ", "(">> >>) >>

FileIds == 1..Len(FileTexts)

\* The batches of one request: formData.getAll('kif').
Batches == UNION {[1..n -> FileIds] : n \in 0..MaxFiles}

\* .eq(column, value): SQL equality, which no NULL satisfies (the filter
\* `eq.null` does not select the rows whose column is NULL).
EqFilter(column, value) == column # Null /\ value # Null /\ column = value

\* The rows .eq('game_date', ...).eq('opponent', ...) selects.
Selected(record) ==
  {j \in 1..Len(games) :
     /\ EqFilter(games[j].game_date, record.game_date)
     /\ EqFilter(games[j].opponent, record.opponent)}

\* .maybeSingle(): data is the row when exactly one row is selected; it is
\* null when none is, and null (with an error) when several are.
Existing(record) == Cardinality(Selected(record)) = 1

\* The row supabase.from('games').insert(record) adds (id, and the columns
\* the routes filter on; `req` and `file` record which request inserted it
\* from which of its files).
RowOf(record, r, k) ==
  [id |-> Len(games) + 1,
   game_date |-> record.game_date,
   opponent |-> record.opponent,
   req |-> r,
   file |-> k]

upOthers == <<input, MY_NAME, pc, ret, analyses, an, calls>>

\* The request arrives with its files; without files it is answered 400.
Start(r, files) ==
  /\ up[r].pc = "idle"
  /\ up' = [up EXCEPT ![r] =
       IF Len(files) = 0
       THEN [NoUpload EXCEPT !.pc = "done", !.status = 400]
       ELSE [NoUpload EXCEPT !.pc = "loop", !.files = files, !.i = 1]]
  /\ UNCHANGED <<games, upOthers>>

\* Mutant: a file that does not parse ends the loop.
ReadFile_ParseFailureEndsLoop(r) ==
  LET u == up[r]
      record == parseKif(FileTexts[u.files[u.i]], MY_NAME)
  IN /\ u.pc = "loop"
     /\ u.i <= Len(u.files)
     /\ up' = [up EXCEPT ![r] =
          IF record = NoRecord
          THEN [u EXCEPT !.errors = Append(@, [file |-> u.i, msg |-> "parse"]),
                         !.i = Len(u.files) + 1]
          ELSE [u EXCEPT !.record = record, !.pc = "select"]]
     /\ UNCHANGED <<games, upOthers>>

\* const text = await file.text(); const record = parseKif(text);
\* if (!record) { errors.push(...); continue }
ReadFile(r) ==
  LET u == up[r]
      record == parseKif(FileTexts[u.files[u.i]], MY_NAME)
  IN /\ u.pc = "loop"
     /\ u.i <= Len(u.files)
     /\ up' = [up EXCEPT ![r] =
          IF record = NoRecord
          THEN [u EXCEPT !.errors = Append(@, [file |-> u.i, msg |-> "parse"]),
                         !.i = @ + 1]
          ELSE [u EXCEPT !.record = record, !.pc = "select"]]
     /\ UNCHANGED <<games, upOthers>>

\* The duplicate check: await supabase.from('games').select('id')...;
\* if (existing) { skipped++; continue }
SelectExisting(r) ==
  LET u == up[r]
  IN /\ u.pc = "select"
     /\ up' = [up EXCEPT ![r] =
          IF Existing(u.record)
          THEN [u EXCEPT !.skipped = @ + 1, !.i = @ + 1, !.pc = "loop",
                         !.record = NoRecord]
          ELSE [u EXCEPT !.pc = "insert"]]
     /\ UNCHANGED <<games, upOthers>>

\* await supabase.from('games').insert(record) succeeds: saved++
InsertGame(r) ==
  LET u == up[r]
  IN /\ u.pc = "insert"
     /\ games' = Append(games, RowOf(u.record, r, u.i))
     /\ up' = [up EXCEPT ![r] =
          [u EXCEPT !.saved = @ + 1, !.i = @ + 1, !.pc = "loop",
                    !.record = NoRecord]]
     /\ UNCHANGED upOthers

\* await supabase.from('games').insert(record) returns an error:
\* errors.push(...)
InsertFails(r) ==
  LET u == up[r]
  IN /\ u.pc = "insert"
     /\ up' = [up EXCEPT ![r] =
          [u EXCEPT !.errors = Append(@, [file |-> u.i, msg |-> "insert"]),
                    !.i = @ + 1, !.pc = "loop", !.record = NoRecord]]
     /\ UNCHANGED <<games, upOthers>>

\* The loop is over: return NextResponse.json({ ok: true, saved, ... })
Respond(r) ==
  LET u == up[r]
  IN /\ u.pc = "loop"
     /\ u.i > Len(u.files)
     /\ up' = [up EXCEPT ![r] = [u EXCEPT !.pc = "done", !.status = 200]]
     /\ UNCHANGED <<games, upOthers>>

\* No other upload request is between its arrival and its response.
NoOtherUpload(r) ==
  \A q \in Requests \ {r} : up[q].pc \in {"idle", "done"}

\* A request arrives while no other one is being handled.
StartAlone(r, files) == NoOtherUpload(r) /\ Start(r, files)

UploadStep(r) ==
  \/ ReadFile(r)
  \/ SelectExisting(r)
  \/ InsertGame(r)
  \/ InsertFails(r)
  \/ Respond(r)

\* Upload requests handled concurrently: every await is a point where another
\* request may run.
NextUpload ==
  \E r \in Requests :
     \/ \E files \in Batches : Start(r, files)
     \/ UploadStep(r)

SpecUpload == Init /\ [][NextUpload]_vars

\* Upload requests handled one at a time.
NextUploadSeq ==
  \E r \in Requests :
     \/ \E files \in Batches : StartAlone(r, files)
     \/ UploadStep(r)

SpecUploadSeq == Init /\ [][NextUploadSeq]_vars

\* The files of request r counted so far.
Counted(r) == up[r].saved + up[r].skipped + Len(up[r].errors)

\* The error entries request r holds for its k-th file.
ErrorsFor(r, k) == {e \in 1..Len(up[r].errors) : up[r].errors[e].file = k}

\* C16: a file for which parseKif returns no record adds one error entry for
\* that file and never aborts the batch. While a request is in its loop the
\* files before the current one have each been counted exactly once; when
\* it has answered 200, saved + skipped + errors.length is the number of
\* its files, every file without a record has exactly one error entry (a
\* parse error), and every other file has at most one entry (of the insert).
C16_ParseFailureNeverAbortsBatch ==
  \A r \in Requests :
     LET u == up[r]
     IN /\ u.pc \in {"loop", "select", "insert"} =>
             /\ u.i \in 1..(Len(u.files) + 1)
             /\ Counted(r) = u.i - 1
        /\ u.pc \in {"select", "insert"} => u.i <= Len(u.files)
        /\ (u.pc = "done" /\ u.status = 200) =>
             /\ u.i = Len(u.files) + 1
             /\ Counted(r) = Len(u.files)
             /\ \A k \in 1..Len(u.files) :
                  IF parseKif(FileTexts[u.files[k]], MY_NAME) = NoRecord
                  THEN /\ Cardinality(ErrorsFor(r, k)) = 1
                       /\ \A e \in ErrorsFor(r, k) : u.errors[e].msg = "parse"
                  ELSE /\ Cardinality(ErrorsFor(r, k)) <= 1
                       /\ \A e \in ErrorsFor(r, k) : u.errors[e].msg = "insert"

\* A request has answered after a batch whose first file gave no record and
\* whose second file was saved.
C16_Witness ==
  \E r \in Requests :
     /\ up[r].pc = "done"
     /\ up[r].status = 200
     /\ Len(up[r].files) = 2
     /\ parseKif(FileTexts[up[r].files[1]], MY_NAME) = NoRecord
     /\ up[r].saved = 1
     /\ \E j \in 1..Len(games) : games[j].req = r /\ games[j].file = 2

\* Rows j and k of games hold the same (game_date, opponent) pair.
SamePair(j, k) ==
  /\ games[j].game_date = games[k].game_date
  /\ games[j].opponent = games[k].opponent

\* C17: when upload requests are handled one at a time, the games table
\* never holds two rows with the same (game_date, opponent) pair.
C17_NoDuplicatePairSequential ==
  \A j, k \in 1..Len(games) : j # k => ~SamePair(j, k)

\* C18: of concurrent upload requests that carry records with the same
\* (game_date, opponent) pair at most one inserts a row; stated for the
\* pairs without a null, which the duplicate check can find.
C18_ConcurrentUploadsInsertOnce ==
  \A j, k \in 1..Len(games) :
     /\ games[j].req # games[k].req
     /\ games[j].game_date # Null
     /\ games[j].opponent # Null
     => ~SamePair(j, k)

\* ----------------------------------------------------- POST /api/analyze
\* The games table as one upload request with the given files leaves it when
\* every insert succeeds and no game is skipped.
StoredGames(files, myName) ==
  [j \in 1..Len(files) |->
     LET record == parseKif(FileTexts[files[j]], myName)
     IN [id |-> j, game_date |-> record.game_date,
         opponent |-> record.opponent, req |-> 1, file |-> j]]

\* The analyze route runs on a table of stored games; no upload is under way.
InitAnalyze ==
  /\ input = <<>>
  /\ MY_NAME \in Names
  /\ pc = "input"
  /\ ret = NoRecord
  /\ games \in {<<>>, StoredGames(<<2>>, MY_NAME), StoredGames(<<2, 4>>, MY_NAME)}
  /\ up = [r \in Requests |-> NoUpload]
  /\ analyses = <<>>
  /\ an = [r \in Requests |-> NoAnalyze]
  /\ calls = <<>>

anOthers == <<input, MY_NAME, pc, ret, games, up>>

\* The gameId values of a request body: 0 is a missing (falsy) gameId, the
\* others are the ids of the stored games and one id of no game.
GameIdValues == 0..(Len(games) + 1)

\* const { gameId } = await req.json(); if (!gameId) return 400
StartAnalyze(r, gameId) ==
  /\ an[r].pc = "idle"
  /\ an' = [an EXCEPT ![r] =
       IF gameId = 0
       THEN [NoAnalyze EXCEPT !.pc = "done", !.status = 400]
       ELSE [NoAnalyze EXCEPT !.pc = "check", !.gameId = gameId]]
  /\ UNCHANGED <<analyses, calls, anOthers>>

\* The rows .from('analyses').select('comment').eq('game_id', gameId) selects.
SelectedAnalyses(gameId) ==
  {j \in 1..Len(analyses) : analyses[j].game_id = gameId}

\* .maybeSingle(): data is the row when exactly one row is selected.
ExistingAnalysis(gameId) == Cardinality(SelectedAnalyses(gameId)) = 1

\* if (existing) return NextResponse.json({ comment, cached: true })
CheckExisting(r) ==
  LET a == an[r]
  IN /\ a.pc = "check"
     /\ an' = [an EXCEPT ![r] =
          IF ExistingAnalysis(a.gameId)
          THEN [a EXCEPT !.pc = "done", !.status = 200, !.cached = TRUE]
          ELSE [a EXCEPT !.pc = "game"]]
     /\ UNCHANGED <<analyses, calls, anOthers>>

\* .from('games').select(...).eq('id', gameId).single() gives the game.
GameFound(r) ==
  LET a == an[r]
  IN /\ a.pc = "game"
     /\ \E j \in 1..Len(games) : games[j].id = a.gameId
     /\ an' = [an EXCEPT ![r] = [a EXCEPT !.pc = "model"]]
     /\ UNCHANGED <<analyses, calls, anOthers>>

\* The select gives no game (no such row, or an error of the query):
\* if (!game) return 404
GameNotFound(r) ==
  LET a == an[r]
  IN /\ a.pc = "game"
     /\ an' = [an EXCEPT ![r] = [a EXCEPT !.pc = "done", !.status = 404]]
     /\ UNCHANGED <<analyses, calls, anOthers>>

\* await anthropic.messages.create(...) answers with a comment.
ModelAnswers(r) ==
  LET a == an[r]
  IN /\ a.pc = "model"
     /\ calls' = Append(calls, [game_id |-> a.gameId, req |-> r, ok |-> TRUE])
     /\ an' = [an EXCEPT ![r] = [a EXCEPT !.pc = "save"]]
     /\ UNCHANGED <<analyses, anOthers>>

\* await anthropic.messages.create(...) throws: catch (e) returns 500
ModelThrows(r) ==
  LET a == an[r]
  IN /\ a.pc = "model"
     /\ calls' = Append(calls, [game_id |-> a.gameId, req |-> r, ok |-> FALSE])
     /\ an' = [an EXCEPT ![r] = [a EXCEPT !.pc = "done", !.status = 500]]
     /\ UNCHANGED <<analyses, anOthers>>

\* await supabase.from('analyses').insert({ game_id: gameId, comment });
\* return NextResponse.json({ comment, cached: false })
InsertAnalysis(r) ==
  LET a == an[r]
  IN /\ a.pc = "save"
     /\ analyses' = Append(analyses, [game_id |-> a.gameId, req |-> r])
     /\ an' = [an EXCEPT ![r] = [a EXCEPT !.pc = "done", !.status = 200]]
     /\ UNCHANGED <<calls, anOthers>>

\* The insert returns an error, which the route does not look at.
InsertAnalysisFails(r) ==
  LET a == an[r]
  IN /\ a.pc = "save"
     /\ an' = [an EXCEPT ![r] = [a EXCEPT !.pc = "done", !.status = 200]]
     /\ UNCHANGED <<analyses, calls, anOthers>>

\* Analyze requests handled concurrently.
NextAnalyze ==
  \E r \in Requests :
     \/ \E gameId \in GameIdValues : StartAnalyze(r, gameId)
     \/ CheckExisting(r)
     \/ GameFound(r)
     \/ GameNotFound(r)
     \/ ModelAnswers(r)
     \/ ModelThrows(r)
     \/ InsertAnalysis(r)
     \/ InsertAnalysisFails(r)

SpecAnalyze == InitAnalyze /\ [][NextAnalyze]_vars

\* C20: for any sequence or interleaving of analyze requests for the same
\* existing gameId a row is inserted into analyses at most once: analyses
\* never holds two rows for one game_id.
C20_AnalysisStoredOnce ==
  \A j, k \in 1..Len(analyses) :
     j # k => analyses[j].game_id # analyses[k].game_id

====
